---------------------------- MODULE Spec2Model ----------------------------
(***************************************************************************)
(* State-machine model of GameClient (src/game.js): the browser client of  *)
(* a multiplayer game.  The client keeps the players and avatars the       *)
(* server announced, a viewport centred on the local player, the set of    *)
(* held arrow keys, and one WebSocket that it reopens after every close.   *)
(*                                                                         *)
(* Every event-loop callback (an inbound message, a resize, a key event,   *)
(* a socket event, the reconnect timer) is one atomic action: JavaScript   *)
(* runs each callback to completion.                                       *)
(*                                                                         *)
(* Lengths are held in half pixels, so that canvas.width / 2 is exact for  *)
(* odd canvas sizes too: Px(n) is n pixels.                                *)
(***************************************************************************)
EXTENDS Integers, Sequences, FiniteSets, TLC

VARIABLES
    canvas,            \* [width, height]: this.canvas.width / .height
    myPlayerId,        \* this.myPlayerId: null or a player id
    myPlayer,          \* this.myPlayer: Absent (null / undefined) or a player
    allPlayers,        \* this.allPlayers: player id -> player
    avatars,           \* this.avatars: avatar name -> avatar definition
    viewportX,         \* this.viewportX
    viewportY,         \* this.viewportY
    activeKeys,        \* this.activeKeys: a Set, kept in insertion order
    currentDirection,  \* this.currentDirection: null or a direction
    pressed,           \* the arrow keys physically down (the keyboard)
    ws,                \* this.ws: [readyState] of the current WebSocket
    reconnectTimer,    \* how many setTimeout callbacks of ws.onclose are pending
    event,             \* history: the event the last step handled
    worldImage,        \* this.worldImage: [complete], the background image
    loads,             \* the avatar images whose load is in flight
    redraws,           \* history: calls of draw() made by the last step
    canvasOps,         \* history: what the last step did on this.ctx
    sent,              \* history: messages the last step passed to ws.send
    lastIntent         \* history: the last move / stop passed to this.ws.send
                       \* of the current socket, Absent if none yet

world == <<myPlayerId, myPlayer, allPlayers, avatars, viewportX, viewportY>>
input == <<activeKeys, currentDirection>>
conn  == <<ws, reconnectTimer>>
vars  == <<canvas, myPlayerId, myPlayer, allPlayers, avatars, viewportX,
           viewportY, activeKeys, currentDirection, pressed, ws,
           reconnectTimer, worldImage, loads, event, redraws, canvasOps,
           sent, lastIntent>>

-----------------------------------------------------------------------------
(* Values *)

null == "null"                  \* JS null of a string-valued field
Absent == [absent |-> TRUE]     \* JS null / undefined where an object is expected

Px(n) == 2 * n
Half(len) == len \div 2         \* len is a whole number of pixels: exact

Max(a, b) == IF a >= b THEN a ELSE b
Min(a, b) == IF a <= b THEN a ELSE b

worldWidth == Px(2048)
worldHeight == Px(2048)

Ids == {"p1", "p2"}             \* the player ids the server uses
GhostId == "p7"                 \* an id the server never put in a mapping

\* World positions of players, in pixels: the middle of the world, a spot
\* near the left and bottom edges, a spot near the top edge, a spot near the
\* right edge.  The model uses the first NumPositions of them.
NumPositions == 2
PositionList == <<<<1000, 1000>>, <<100, 2000>>, <<1500, 300>>, <<2000, 100>>>>
Positions == {PositionList[n] : n \in 1..Min(NumPositions, Len(PositionList))}

\* PlayerState as the server sends it (the fields the client reads here).
Player(id, pos) == [id |-> id, x |-> Px(pos[1]), y |-> Px(pos[2])]
Players == {Player(id, pos) : id \in Ids, pos \in Positions}

\* window.innerWidth x window.innerHeight, in pixels: an even size, an odd
\* size, and a window wider than the world.
WindowSizes == {<<800, 600>>, <<1025, 601>>, <<3000, 500>>}
Canvas(size) == [width |-> Px(size[1]), height |-> Px(size[2])]

\* AvatarDefinition: a name and its frames (held as one opaque value).
AvatarDefinition(name, frames) == [name |-> name, frames |-> frames]
AvatarDefs == {AvatarDefinition("a1", f) : f \in {"framesA", "framesB"}}

\* A mapping is a function on the set of its keys.
Keys(obj) == DOMAIN obj
EmptyObject == [k \in {} |-> Absent]
Put(obj, key, value) ==
    [k \in Keys(obj) \cup {key} |-> IF k = key THEN value ELSE obj[k]]
Delete(obj, key) == [k \in Keys(obj) \ {key} |-> obj[k]]
Get(obj, key) == IF key \in Keys(obj) THEN obj[key] ELSE Absent

-----------------------------------------------------------------------------
(* Inbound messages (JSON.parse(event.data)) *)

\* players of join_game: id -> PlayerState, each stored under its own id.
PlayerMaps ==
    UNION {{pm \in [S -> Players] : \A id \in S : pm[id].id = id} : S \in SUBSET Ids}

\* players of players_moved: id -> PlayerState or null.
MovedMaps ==
    UNION {{pm \in [S -> Players \cup {Absent}] :
               \A id \in S : pm[id] # Absent => pm[id].id = id} : S \in SUBSET Ids}

JoinAvatarMaps ==
    {[n \in S |-> AvatarDefinition(n, "framesA")] : S \in {{}, {"a1"}}}

JoinGameMessages ==
    {[action |-> "join_game", success |-> TRUE, playerId |-> id,
      players |-> pm, avatars |-> am] :
        id \in Ids, pm \in PlayerMaps, am \in JoinAvatarMaps}
    \cup {[action |-> "join_game", success |-> FALSE, error |-> "rejected"]}

PlayersMovedMessages ==
    {[action |-> "players_moved", players |-> pm] : pm \in MovedMaps}

PlayerJoinedMessages ==
    {[action |-> "player_joined", player |-> p, avatar |-> a] :
        p \in Players, a \in AvatarDefs}

PlayerLeftMessages ==
    {[action |-> "player_left", playerId |-> id] : id \in Ids \cup {GhostId}}

\* A tag this client does not know, and a message with no action field.
UnknownMessages == {[action |-> "chat", text |-> "hi"], [text |-> "hi"]}

ActionOf(message) ==
    IF "action" \in DOMAIN message THEN message.action ELSE "undefined"

-----------------------------------------------------------------------------
(* Rendering *)

\* How many avatar image loads the model lets be in flight at once.
MaxLoads == 2

\* drawAvatar skips a player further than this outside the canvas.
CullMargin == Px(50)

\* player.animationFrame || 0
frameIndex(player) ==
    IF "animationFrame" \in DOMAIN player THEN player.animationFrame ELSE 0

\* this.avatars[player.avatar]
avatarOf(player, avs) ==
    IF "avatar" \in DOMAIN player THEN Get(avs, player.avatar) ELSE Absent

\* Faulty variant of selectFrames: the east frames stand in for west only
\* when the avatar has no west frames.
selectFrames_WestIfPresent(direction, avatarData) ==
    IF direction = "west" /\ "west" \notin Keys(avatarData.frames)
    THEN "east"
    ELSE direction

\* The key of avatarData.frames whose sequence drawAvatar uses for a facing.
selectFrames(direction, avatarData) ==
    IF direction = "west" THEN "east" ELSE direction

\* drawAvatar(player, avatarData) with the viewport at (vx, vy) and
\* this.canvas = cv: the image loads it starts.  A load keeps what its
\* onload closure captured; superseded tells that draw() ran again since.
drawAvatar(player, avatarData, vx, vy, cv) ==
    LET avatarX == player.x - vx
        avatarY == player.y - vy
        frames == selectFrames(player.facing, avatarData)
    IN  IF \/ avatarX < -CullMargin \/ avatarX > cv.width + CullMargin
           \/ avatarY < -CullMargin \/ avatarY > cv.height + CullMargin
        THEN {}
        ELSE IF /\ frames \in Keys(avatarData.frames)
                /\ frameIndex(player) + 1 \in DOMAIN avatarData.frames[frames]
             THEN {[id |-> player.id, username |-> player.username,
                    x |-> avatarX, y |-> avatarY,
                    src |-> avatarData.frames[frames][frameIndex(player) + 1],
                    flipped |-> (player.facing = "west"),
                    superseded |-> FALSE]}
             ELSE {}

\* The two loops of draw(): every other player, then the local player.
drawAvatars(plrs, meId, me, avs, vx, vy, cv) ==
    UNION {drawAvatar(plrs[k], avatarOf(plrs[k], avs), vx, vy, cv) :
              k \in {j \in Keys(plrs) : /\ plrs[j].id # meId
                                        /\ avatarOf(plrs[j], avs) # Absent}}
    \cup (IF me # Absent /\ avatarOf(me, avs) # Absent
          THEN drawAvatar(me, avatarOf(me, avs), vx, vy, cv)
          ELSE {})

\* Faulty variant of drawn: a new draw() cancels the loads in flight.
drawn_CancelsLoads(cv, image) ==
    IF image = Absent
    THEN canvasOps' = <<>> /\ UNCHANGED loads
    ELSE /\ canvasOps' =
               <<[op |-> "clearRect", width |-> cv.width, height |-> cv.height],
                 [op |-> "drawImage", image |-> "world.jpg",
                  complete |-> image.complete,
                  sx |-> viewportX', sy |-> viewportY',
                  width |-> cv.width, height |-> cv.height]>>
         /\ loads' = drawAvatars(allPlayers', myPlayerId', myPlayer', avatars',
                                 viewportX', viewportY', cv)
         /\ Cardinality(loads') <= MaxLoads

\* What a call of draw() does, on the state the handler leaves, with
\* this.canvas = cv and this.worldImage = image.  Drawing an image whose
\* load is not complete paints nothing.
drawn(cv, image) ==
    IF image = Absent
    THEN canvasOps' = <<>> /\ UNCHANGED loads
    ELSE /\ canvasOps' =
               <<[op |-> "clearRect", width |-> cv.width, height |-> cv.height],
                 [op |-> "drawImage", image |-> "world.jpg",
                  complete |-> image.complete,
                  sx |-> viewportX', sy |-> viewportY',
                  width |-> cv.width, height |-> cv.height]>>
         /\ loads' = {[l EXCEPT !.superseded = TRUE] : l \in loads}
                     \cup drawAvatars(allPlayers', myPlayerId', myPlayer',
                                      avatars', viewportX', viewportY', cv)
         /\ Cardinality(loads') <= MaxLoads

\* One call of draw() / a handler that does not call draw().
draw(cv, image) == redraws' = 1 /\ drawn(cv, image)
noDraw == redraws' = 0 /\ canvasOps' = <<>> /\ UNCHANGED loads

\* this.worldImage.onload
worldImageOnload ==
    /\ ~worldImage.complete
    /\ worldImage' = [complete |-> TRUE]
    /\ UNCHANGED <<lastIntent, canvas, world, input, pressed, conn>>
    /\ draw(canvas, worldImage')
    /\ sent' = <<>>
    /\ event' = [type |-> "worldload"]

\* avatarImg.onload of an image load in flight: paints the avatar and its
\* label where drawAvatar computed them.
avatarImgOnload(load) ==
    /\ load \in loads
    /\ loads' = loads \ {load}
    /\ canvasOps' =
          <<[op |-> "drawImage", image |-> load.src, x |-> load.x, y |-> load.y,
             flipped |-> load.flipped],
            [op |-> "strokeText", text |-> load.username, x |-> load.x,
             y |-> load.y],
            [op |-> "fillText", text |-> load.username, x |-> load.x,
             y |-> load.y]>>
    /\ redraws' = 0
    /\ sent' = <<>>
    /\ event' = [type |-> "avatarload", load |-> load]
    /\ UNCHANGED <<lastIntent, worldImage, canvas, world, input, pressed, conn>>

-----------------------------------------------------------------------------
(* Viewport *)

\* Faulty variant of ClampAxis: subtracts the whole canvas, not half of it.
ClampAxis_NoHalf(playerPos, canvasDim, worldDim) ==
    Max(0, Min(playerPos - canvasDim, worldDim - canvasDim))

\* One axis of updateViewport: centre the canvas on the player, then clamp.
ClampAxis(playerPos, canvasDim, worldDim) ==
    Max(0, Min(playerPos - Half(canvasDim), worldDim - canvasDim))

\* updateViewport() with this.myPlayer = player and this.canvas = cv.
updateViewport(player, cv) ==
    IF player = Absent
    THEN UNCHANGED <<viewportX, viewportY>>
    ELSE /\ viewportX' = ClampAxis(player.x, cv.width, worldWidth)
         /\ viewportY' = ClampAxis(player.y, cv.height, worldHeight)

\* Faulty variant of onresize: resizes the canvas and draws with the old
\* viewport.
onresize_Stale(size) ==
    /\ canvas' = Canvas(size)
    /\ UNCHANGED <<viewportX, viewportY>>
    /\ UNCHANGED <<myPlayerId, myPlayer, allPlayers, avatars, input, pressed, conn>>
    /\ UNCHANGED <<worldImage, lastIntent>>
    /\ draw(Canvas(size), worldImage)
    /\ sent' = <<>>
    /\ event' = [type |-> "resize"]

\* window 'resize' listener.
onresize(size) ==
    /\ canvas' = Canvas(size)
    /\ updateViewport(myPlayer, Canvas(size))
    /\ UNCHANGED <<myPlayerId, myPlayer, allPlayers, avatars, input, pressed, conn>>
    /\ UNCHANGED <<worldImage, lastIntent>>
    /\ draw(Canvas(size), worldImage)
    /\ sent' = <<>>
    /\ event' = [type |-> "resize"]

-----------------------------------------------------------------------------
(* handleServerMessage, one operator per case of the switch *)

\* Faulty variant of JoinGame: a refused join forgets the local player.
JoinGame_ResetOnFailure(message) ==
    IF message.success
    THEN /\ myPlayerId' = message.playerId
         /\ avatars' = message.avatars
         /\ allPlayers' = message.players
         /\ myPlayer' = Get(message.players, message.playerId)
         /\ updateViewport(Get(message.players, message.playerId), canvas)
         /\ draw(canvas, worldImage)
    ELSE /\ myPlayer' = Absent
         /\ UNCHANGED <<myPlayerId, allPlayers, avatars, viewportX, viewportY>>
         /\ noDraw

JoinGame(message) ==
    IF message.success
    THEN /\ myPlayerId' = message.playerId
         /\ avatars' = message.avatars
         /\ allPlayers' = message.players
         /\ myPlayer' = Get(message.players, message.playerId)
         /\ updateViewport(Get(message.players, message.playerId), canvas)
         /\ draw(canvas, worldImage)
    ELSE /\ UNCHANGED world
         /\ noDraw

\* The ids of a players_moved payload whose value is truthy.
PresentIds(message) ==
    {id \in Keys(message.players) : message.players[id] # Absent}

\* Faulty variant of PlayersMoved: one draw() per id of the batch.
PlayersMoved_DrawsPerId(message) ==
    /\ allPlayers' = [id \in Keys(allPlayers) \cup PresentIds(message) |->
                         IF id \in PresentIds(message)
                         THEN message.players[id]
                         ELSE allPlayers[id]]
    /\ IF myPlayerId \in PresentIds(message)
       THEN /\ myPlayer' = message.players[myPlayerId]
            /\ updateViewport(message.players[myPlayerId], canvas)
       ELSE UNCHANGED <<myPlayer, viewportX, viewportY>>
    /\ UNCHANGED <<myPlayerId, avatars>>
    /\ redraws' = Cardinality(Keys(message.players))
    /\ drawn(canvas, worldImage)

\* Faulty variant of PlayersMoved: a null payload value deletes the entry.
PlayersMoved_DeleteNull(message) ==
    /\ allPlayers' =
          [id \in (Keys(allPlayers) \cup PresentIds(message))
                      \ (Keys(message.players) \ PresentIds(message)) |->
              IF id \in PresentIds(message)
              THEN message.players[id]
              ELSE allPlayers[id]]
    /\ IF myPlayerId \in PresentIds(message)
       THEN /\ myPlayer' = message.players[myPlayerId]
            /\ updateViewport(message.players[myPlayerId], canvas)
       ELSE UNCHANGED <<myPlayer, viewportX, viewportY>>
    /\ UNCHANGED <<myPlayerId, avatars>>
    /\ draw(canvas, worldImage)

PlayersMoved(message) ==
    /\ allPlayers' = [id \in Keys(allPlayers) \cup PresentIds(message) |->
                         IF id \in PresentIds(message)
                         THEN message.players[id]
                         ELSE allPlayers[id]]
    /\ IF myPlayerId \in PresentIds(message)
       THEN /\ myPlayer' = message.players[myPlayerId]
            /\ updateViewport(message.players[myPlayerId], canvas)
       ELSE UNCHANGED <<myPlayer, viewportX, viewportY>>
    /\ UNCHANGED <<myPlayerId, avatars>>
    /\ draw(canvas, worldImage)

\* Faulty variant of PlayerJoined: the mapping is replaced by the newcomer.
PlayerJoined_ReplacesAll(message) ==
    /\ allPlayers' = Put(EmptyObject, message.player.id, message.player)
    /\ avatars' = Put(avatars, message.avatar.name, message.avatar)
    /\ UNCHANGED <<myPlayerId, myPlayer, viewportX, viewportY>>
    /\ draw(canvas, worldImage)

PlayerJoined(message) ==
    /\ allPlayers' = Put(allPlayers, message.player.id, message.player)
    /\ avatars' = Put(avatars, message.avatar.name, message.avatar)
    /\ UNCHANGED <<myPlayerId, myPlayer, viewportX, viewportY>>
    /\ draw(canvas, worldImage)

\* Faulty variant of PlayerLeft: the local player leaving resets the id.
PlayerLeft_ForgetsLocal(message) ==
    /\ allPlayers' = Delete(allPlayers, message.playerId)
    /\ myPlayerId' = IF message.playerId = myPlayerId THEN null ELSE myPlayerId
    /\ UNCHANGED <<myPlayer, avatars, viewportX, viewportY>>
    /\ draw(canvas, worldImage)

\* Faulty variant of PlayerLeft: draws only when an entry was removed.
PlayerLeft_DrawsIfRemoved(message) ==
    /\ allPlayers' = Delete(allPlayers, message.playerId)
    /\ UNCHANGED <<myPlayerId, myPlayer, avatars, viewportX, viewportY>>
    /\ IF message.playerId \in Keys(allPlayers)
       THEN draw(canvas, worldImage)
       ELSE noDraw

PlayerLeft(message) ==
    /\ allPlayers' = Delete(allPlayers, message.playerId)
    /\ UNCHANGED <<myPlayerId, myPlayer, avatars, viewportX, viewportY>>
    /\ draw(canvas, worldImage)

\* Faulty variant of handleServerMessage: a default case that draws.
handleServerMessage_DrawsByDefault(message) ==
    CASE ActionOf(message) = "join_game"     -> JoinGame(message)
      [] ActionOf(message) = "players_moved" -> PlayersMoved(message)
      [] ActionOf(message) = "player_joined" -> PlayerJoined(message)
      [] ActionOf(message) = "player_left"   -> PlayerLeft(message)
      [] OTHER -> UNCHANGED world /\ draw(canvas, worldImage)

handleServerMessage(message) ==
    CASE ActionOf(message) = "join_game"     -> JoinGame(message)
      [] ActionOf(message) = "players_moved" -> PlayersMoved(message)
      [] ActionOf(message) = "player_joined" -> PlayerJoined(message)
      [] ActionOf(message) = "player_left"   -> PlayerLeft(message)
      [] OTHER -> UNCHANGED world /\ noDraw

\* ws.onmessage: the socket delivers messages only while it is open.
onmessage(message) ==
    /\ ws.readyState = "OPEN"
    /\ handleServerMessage(message)
    /\ sent' = <<>>
    /\ event' = [type |-> "message", message |-> message]
    /\ UNCHANGED <<lastIntent, worldImage, canvas, input, pressed, conn>>

-----------------------------------------------------------------------------
(* Keyboard *)

ArrowKeys == {"ArrowUp", "ArrowDown", "ArrowLeft", "ArrowRight"}
KeyCodes == ArrowKeys \cup {"KeyA"}

isArrowKey(code) == code \in ArrowKeys

getDirectionFromKey(code) ==
    CASE code = "ArrowUp"    -> "up"
      [] code = "ArrowDown"  -> "down"
      [] code = "ArrowLeft"  -> "left"
      [] code = "ArrowRight" -> "right"
      [] OTHER -> "undefined"

\* Set.prototype.add / delete on a Set held as its insertion order.
Elements(keys) == {keys[i] : i \in 1..Len(keys)}
SetAdd(keys, k) == IF k \in Elements(keys) THEN keys ELSE Append(keys, k)
SetDelete(keys, k) == SelectSeq(keys, LAMBDA e : e # k)

\* Faulty variant of sendMoveCommand: sends whatever the socket's state.
sendMoveCommand_Unguarded(direction) ==
    <<[action |-> "move", direction |-> direction]>>

\* Faulty variant of sendStopCommand: sends the stop twice.
sendStopCommand_Twice ==
    IF ws.readyState # "OPEN"
    THEN <<>>
    ELSE <<[action |-> "stop"], [action |-> "stop"]>>

\* What sendMoveCommand / sendStopCommand pass to ws.send.
sendMoveCommand(direction) ==
    IF ws.readyState # "OPEN"
    THEN <<>>
    ELSE <<[action |-> "move", direction |-> direction]>>

sendStopCommand ==
    IF ws.readyState # "OPEN" THEN <<>> ELSE <<[action |-> "stop"]>>

handleKeyDown(keyCode) ==
    IF ws.readyState # "OPEN"
    THEN UNCHANGED input /\ sent' = <<>>
    ELSE IF getDirectionFromKey(keyCode) # "undefined"
         THEN /\ activeKeys' = SetAdd(activeKeys, keyCode)
              /\ currentDirection' = getDirectionFromKey(keyCode)
              /\ sent' = sendMoveCommand(getDirectionFromKey(keyCode))
         ELSE UNCHANGED input /\ sent' = <<>>

\* Faulty variant of handleKeyUp: resolves to the oldest remaining key.
handleKeyUp_Oldest(keyCode) ==
    LET remainingKeys == SetDelete(activeKeys, keyCode) IN
    /\ activeKeys' = remainingKeys
    /\ IF Len(remainingKeys) = 0
       THEN /\ currentDirection' = null
            /\ sent' = sendStopCommand
       ELSE /\ currentDirection' = getDirectionFromKey(remainingKeys[1])
            /\ sent' = sendMoveCommand(getDirectionFromKey(remainingKeys[1]))

handleKeyUp(keyCode) ==
    LET remainingKeys == SetDelete(activeKeys, keyCode) IN
    /\ activeKeys' = remainingKeys
    /\ IF Len(remainingKeys) = 0
       THEN /\ currentDirection' = null
            /\ sent' = sendStopCommand
       ELSE /\ currentDirection' = getDirectionFromKey(remainingKeys[Len(remainingKeys)])
            /\ sent' = sendMoveCommand(
                          getDirectionFromKey(remainingKeys[Len(remainingKeys)]))

\* The last move / stop sent on the socket, after a step that sent msgs.
lastSent(last, msgs) == IF msgs = <<>> THEN last ELSE msgs[Len(msgs)]

\* document 'keydown' / 'keyup' listeners.  A keydown comes for a key
\* going down and, as auto-repeat, for a key that is down; a keyup for an
\* arrow key comes when that key, which was down, goes up.
keydown(code) ==
    /\ IF isArrowKey(code)
       THEN handleKeyDown(code) /\ pressed' = pressed \cup {code}
       ELSE UNCHANGED <<input, pressed>> /\ sent' = <<>>
    /\ noDraw
    /\ lastIntent' = lastSent(lastIntent, sent')
    /\ event' = [type |-> "keydown", code |-> code]
    /\ UNCHANGED <<worldImage, canvas, world, conn>>

keyup(code) ==
    /\ isArrowKey(code) => code \in pressed
    /\ IF isArrowKey(code)
       THEN handleKeyUp(code) /\ pressed' = pressed \ {code}
       ELSE UNCHANGED <<input, pressed>> /\ sent' = <<>>
    /\ noDraw
    /\ lastIntent' = lastSent(lastIntent, sent')
    /\ event' = [type |-> "keyup", code |-> code]
    /\ UNCHANGED <<worldImage, canvas, world, conn>>

-----------------------------------------------------------------------------
(* Connection *)

\* connectToServer(): a new socket, not yet open, nothing sent on it.
connectToServer == ws' = [readyState |-> "CONNECTING"] /\ lastIntent' = Absent

\* joinGame(): what it passes to ws.send.
joinGame == <<[action |-> "join_game", username |-> "Joe"]>>

\* ws.onopen
onopen ==
    /\ ws.readyState = "CONNECTING"
    /\ ws' = [readyState |-> "OPEN"]
    /\ sent' = joinGame
    /\ noDraw
    /\ event' = [type |-> "open"]
    /\ UNCHANGED <<lastIntent, worldImage, canvas, world, input, pressed, reconnectTimer>>

\* ws.onerror: logs only.
onerror ==
    /\ ws.readyState \in {"CONNECTING", "OPEN"}
    /\ sent' = <<>>
    /\ noDraw
    /\ event' = [type |-> "error"]
    /\ UNCHANGED <<lastIntent, worldImage, canvas, world, input, pressed, conn>>

\* The server starts the closing handshake: readyState becomes CLOSING, no
\* callback of the client runs.
closing ==
    /\ ws.readyState = "OPEN"
    /\ ws' = [readyState |-> "CLOSING"]
    /\ sent' = <<>>
    /\ noDraw
    /\ event' = [type |-> "closing"]
    /\ UNCHANGED <<lastIntent, worldImage, canvas, world, input, pressed, reconnectTimer>>

\* Faulty variant of onclose: logs the close and schedules nothing.
onclose_NoRetry ==
    /\ ws.readyState \in {"CONNECTING", "OPEN", "CLOSING"}
    /\ ws' = [readyState |-> "CLOSED"]
    /\ UNCHANGED reconnectTimer
    /\ sent' = <<>>
    /\ noDraw
    /\ event' = [type |-> "close"]
    /\ UNCHANGED <<lastIntent, worldImage, canvas, world, input, pressed>>

\* ws.onclose: the socket is closed, the reconnect is scheduled.
onclose ==
    /\ ws.readyState \in {"CONNECTING", "OPEN", "CLOSING"}
    /\ ws' = [readyState |-> "CLOSED"]
    /\ reconnectTimer' = reconnectTimer + 1
    /\ sent' = <<>>
    /\ noDraw
    /\ event' = [type |-> "close"]
    /\ UNCHANGED <<lastIntent, worldImage, canvas, world, input, pressed>>

\* The setTimeout callback of ws.onclose.
reconnect ==
    /\ reconnectTimer > 0
    /\ reconnectTimer' = reconnectTimer - 1
    /\ connectToServer
    /\ sent' = <<>>
    /\ noDraw
    /\ event' = [type |-> "reconnect"]
    /\ UNCHANGED <<worldImage, canvas, world, input, pressed>>

-----------------------------------------------------------------------------
(* Specifications *)

\* The state the constructor leaves.
Init ==
    /\ canvas \in {Canvas(size) : size \in WindowSizes}
    /\ myPlayerId = null
    /\ myPlayer = Absent
    /\ allPlayers = EmptyObject
    /\ avatars = EmptyObject
    /\ viewportX = 0
    /\ viewportY = 0
    /\ activeKeys = <<>>
    /\ currentDirection = null
    /\ pressed = {}
    /\ ws = [readyState |-> "CONNECTING"]
    /\ reconnectTimer = 0
    /\ worldImage = [complete |-> FALSE]
    /\ loads = {}
    /\ event = [type |-> "init"]
    /\ redraws = 0
    /\ canvasOps = <<>>
    /\ sent = <<>>
    /\ lastIntent = Absent

OnJoinGame == \E message \in JoinGameMessages : onmessage(message)
OnPlayersMoved == \E message \in PlayersMovedMessages : onmessage(message)
OnPlayerJoined == \E message \in PlayerJoinedMessages : onmessage(message)
OnPlayerLeft == \E message \in PlayerLeftMessages : onmessage(message)
OnUnknown == \E message \in UnknownMessages : onmessage(message)
Resize == \E size \in WindowSizes : onresize(size)
KeyDown == \E code \in KeyCodes : keydown(code)
KeyUp == \E code \in KeyCodes : keyup(code)
OnOpen == onopen
OnError == onerror
Closing == closing
OnClose == onclose
Reconnect == reconnect

NextConn == OnOpen \/ OnError \/ Closing \/ OnClose \/ Reconnect
NextWorld ==
    \/ OnJoinGame \/ OnPlayersMoved \/ OnPlayerJoined \/ OnPlayerLeft
    \/ OnUnknown \/ Resize \/ NextConn
NextInput == KeyDown \/ KeyUp \/ NextConn
Next == NextWorld \/ NextInput

\* The whole client.
Spec == Init /\ [][Next]_vars
\* The message and resize handlers over the connection's life cycle.
SpecWorld == Init /\ [][NextWorld]_vars
\* The keyboard handlers over the connection's life cycle.
SpecInput == Init /\ [][NextInput]_vars
\* The same, with the browser running every pending timeout callback.
SpecInputFair == SpecInput /\ WF_vars(Reconnect)

\* Rendering: players and avatars with the fields draw() and drawAvatar()
\* read.  Two world positions close enough to be on the canvas together.
RenderPositions == {<<1000, 1000>>, <<1100, 900>>}
RenderAvatar ==
    AvatarDefinition("a1", [east  |-> <<"e0.png", "e1.png">>,
                            south |-> <<"s0.png">>,
                            west  |-> <<"w0.png", "w1.png">>])
RenderPlayer(id, pos) ==
    IF id = "p1"
    THEN [id |-> id, username |-> "Joe", x |-> Px(pos[1]), y |-> Px(pos[2]),
          avatar |-> "a1", facing |-> "west", animationFrame |-> 1]
    ELSE [id |-> id, username |-> "Ann", x |-> Px(pos[1]), y |-> Px(pos[2]),
          avatar |-> "a1", facing |-> "south"]
RenderPlayers == {RenderPlayer(id, pos) : id \in Ids, pos \in RenderPositions}
RenderPlayerMaps ==
    UNION {{pm \in [S -> RenderPlayers] : \A id \in S : pm[id].id = id} :
              S \in SUBSET Ids}

RenderJoinGameMessages ==
    {[action |-> "join_game", success |-> TRUE, playerId |-> "p1",
      players |-> pm, avatars |-> Put(EmptyObject, "a1", RenderAvatar)] :
        pm \in RenderPlayerMaps}
RenderPlayersMovedMessages ==
    {[action |-> "players_moved", players |-> pm] : pm \in RenderPlayerMaps}
RenderPlayerJoinedMessages ==
    {[action |-> "player_joined", player |-> p, avatar |-> RenderAvatar] :
        p \in RenderPlayers}
RenderPlayerLeftMessages ==
    {[action |-> "player_left", playerId |-> id] : id \in Ids}

OnRenderJoinGame == \E message \in RenderJoinGameMessages : onmessage(message)
OnRenderPlayersMoved ==
    \E message \in RenderPlayersMovedMessages : onmessage(message)
OnRenderPlayerJoined ==
    \E message \in RenderPlayerJoinedMessages : onmessage(message)
OnRenderPlayerLeft ==
    \E message \in RenderPlayerLeftMessages : onmessage(message)
WorldImageOnload == worldImageOnload
AvatarImgOnload == \E load \in loads : avatarImgOnload(load)

NextRender ==
    \/ OnRenderJoinGame \/ OnRenderPlayersMoved \/ OnRenderPlayerJoined
    \/ OnRenderPlayerLeft \/ WorldImageOnload \/ AvatarImgOnload \/ OnOpen

\* The message handlers, draw() and the image loads it starts.
SpecRender == Init /\ [][NextRender]_vars

\* Frame selection: every facing, every frame index up to MaxFrame and a
\* missing one, every avatar with or without east and west frames.
MaxFrame == 2
Facings == {"north", "south", "east", "west"}
FramePlayers ==
    {[id |-> "p1", username |-> "Joe", x |-> Px(1000), y |-> Px(1000),
      avatar |-> "a1", facing |-> f, animationFrame |-> n] :
        f \in Facings, n \in 0..MaxFrame}
    \cup {[id |-> "p1", username |-> "Joe", x |-> Px(1000), y |-> Px(1000),
           avatar |-> "a1", facing |-> f] : f \in Facings}
EastSequences == {<<"e0.png">>, <<"e0.png", "e1.png">>}
FrameAvatars ==
    UNION {{AvatarDefinition("a1",
               [d \in S |-> CASE d = "east" -> e
                              [] d = "west" -> <<"w0.png", "w1.png">>
                              [] OTHER -> <<"s0.png">>]) : e \in EastSequences} :
              S \in {T \cup {"south"} : T \in SUBSET {"east", "west"}}}

\* The client after the join reply that brought one player and one avatar,
\* the image loads of that reply's draw finished.
InitFrames ==
    /\ canvas \in {Canvas(size) : size \in WindowSizes}
    /\ myPlayerId = "p1"
    /\ myPlayer \in FramePlayers
    /\ allPlayers = Put(EmptyObject, "p1", myPlayer)
    /\ avatars \in {Put(EmptyObject, "a1", a) : a \in FrameAvatars}
    /\ viewportX = ClampAxis(myPlayer.x, canvas.width, worldWidth)
    /\ viewportY = ClampAxis(myPlayer.y, canvas.height, worldHeight)
    /\ activeKeys = <<>>
    /\ currentDirection = null
    /\ pressed = {}
    /\ ws = [readyState |-> "OPEN"]
    /\ reconnectTimer = 0
    /\ worldImage = [complete |-> FALSE]
    /\ loads = {}
    /\ event = [type |-> "init"]
    /\ redraws = 0
    /\ canvasOps = <<>>
    /\ sent = <<>>
    /\ lastIntent = Absent

NextFrames == Resize \/ WorldImageOnload \/ AvatarImgOnload

\* draw() applied to every player and avatar of the sets above.
SpecFrames == InitFrames /\ [][NextFrames]_vars

-----------------------------------------------------------------------------
(* Properties *)

\* The last step handled an inbound message with this action tag.
Handled(e, tag) == e.type = "message" /\ ActionOf(e.message) = tag
JoinSucceeded(e) == Handled(e, "join_game") /\ e.message.success
JoinFailed(e) == Handled(e, "join_game") /\ ~e.message.success

\* The origin the specification's computeViewport gives on one axis: the
\* centred origin p - c/2, brought into [0, max(0, w - c)].
ExpectedOrigin(p, c, w) ==
    LET centred == p - Half(c)
        top == IF w - c > 0 THEN w - c ELSE 0
    IN  IF centred < 0 THEN 0 ELSE IF centred > top THEN top ELSE centred

\* C1: in every reachable state the viewport origin lies in
\* [0, max(0, worldWidth - canvasWidth)] x [0, max(0, worldHeight -
\* canvasHeight)]; on an axis where the canvas is larger than the world it
\* is 0.
C1_ViewportInWorld ==
    /\ 0 <= viewportX /\ viewportX <= Max(0, worldWidth - canvas.width)
    /\ 0 <= viewportY /\ viewportY <= Max(0, worldHeight - canvas.height)

\* C2: when the world is at least as large as the canvas and the centred
\* origin P - C/2 lies in [0, world - canvas] on both axes, the viewport is
\* exactly P - C/2, so the player is drawn at (C.w/2, C.h/2); a successful
\* join with the local player at (1000, 1000) on an 800x600 canvas gives
\* the viewport (600, 700).
C2_JoinExample(e) ==
    /\ JoinSucceeded(e)
    /\ Get(e.message.players, e.message.playerId)
           = Player(e.message.playerId, <<1000, 1000>>)
    /\ canvas = Canvas(<<800, 600>>)

C2_CentredWhenInBounds ==
    /\ (/\ myPlayer # Absent
        /\ worldWidth >= canvas.width /\ worldHeight >= canvas.height
        /\ 0 <= myPlayer.x - Half(canvas.width)
        /\ myPlayer.x - Half(canvas.width) <= worldWidth - canvas.width
        /\ 0 <= myPlayer.y - Half(canvas.height)
        /\ myPlayer.y - Half(canvas.height) <= worldHeight - canvas.height)
       => /\ myPlayer.x - viewportX = Half(canvas.width)
          /\ myPlayer.y - viewportY = Half(canvas.height)
    /\ C2_JoinExample(event) => viewportX = Px(600) /\ viewportY = Px(700)

C2_Witness ==
    /\ C2_JoinExample(event)
    /\ viewportX = Px(600) /\ viewportY = Px(700)

C4_IdNeverChanges ==
    [][myPlayerId # null => myPlayerId' = myPlayerId]_vars

\* C4 (amended): local-player-id changes only when a successful join_game
\* message is handled, and then it becomes that message's playerId; no
\* other message, no resize and no close, reconnect or re-join request
\* changes it.
C4_IdChangesOnlyOnJoin ==
    [][myPlayerId' # myPlayerId
          => JoinSucceeded(event') /\ myPlayerId' = event'.message.playerId]_vars

\* The channel dropped and reopened after a join: the re-join request is
\* sent and the id is still the one the join set.
C4_Witness ==
    /\ myPlayerId # null
    /\ event.type = "open"
    /\ sent = joinGame

\* The last step handled a player_left message naming the local player.
LocalPlayerLeft(e) ==
    Handled(e, "player_left") /\ e.message.playerId = myPlayerId

\* The last step handled a successful join_game whose players mapping has no
\* entry for the playerId it assigns.
JoinWithoutOwnEntry(e) ==
    JoinSucceeded(e) /\ e.message.playerId \notin Keys(e.message.players)

\* C5 (as claimed): once the mapping holds the local player's entry, every
\* step other than a player_left naming local-player-id leaves the mapping
\* with an entry for local-player-id.
C5_LocalEntryKept ==
    [][(myPlayerId # null /\ myPlayerId \in Keys(allPlayers)
            /\ ~LocalPlayerLeft(event'))
          => myPlayerId' \in Keys(allPlayers')]_vars

\* C5 (amended): once the mapping holds the local player's entry, it holds
\* an entry for local-player-id after every step other than a player_left
\* naming local-player-id and a successful join_game whose players mapping
\* lacks the playerId it assigns; a player_left naming another id never
\* removes it.
C5_LocalEntryKeptUntilLeftOrRejoined ==
    [][(myPlayerId # null /\ myPlayerId \in Keys(allPlayers)
            /\ ~LocalPlayerLeft(event') /\ ~JoinWithoutOwnEntry(event'))
          => myPlayerId' \in Keys(allPlayers')]_vars

\* Another player left and the local player's entry is still there.
C5_Witness ==
    /\ myPlayerId # null /\ myPlayerId \in Keys(allPlayers)
    /\ Handled(event, "player_left")
    /\ event.message.playerId \in Ids \ {myPlayerId}
    /\ allPlayers[myPlayerId] = myPlayer

\* C6: a players_moved message replaces exactly the entries of the ids
\* whose payload value is present, by that value; an id whose value is null
\* and an id the message does not mention keep their entry (or stay absent).
C6_PlayersMovedFrame ==
    [][Handled(event', "players_moved")
          => \A id \in Ids \cup {GhostId} :
                IF /\ id \in Keys(event'.message.players)
                   /\ event'.message.players[id] # Absent
                THEN Get(allPlayers', id) = event'.message.players[id]
                ELSE Get(allPlayers', id) = Get(allPlayers, id)]_vars

\* A batch with a null for a player the mapping holds and a new state for
\* another: the first entry is still there.
C6_Witness ==
    /\ Handled(event, "players_moved")
    /\ \E id \in Keys(event.message.players) :
          /\ event.message.players[id] = Absent
          /\ id \in Keys(allPlayers)
    /\ PresentIds(event.message) # {}

\* C7: a join_game message with success false changes no client state,
\* draws nothing and leaves the connection as it is: no close, no reconnect
\* scheduled, nothing sent.
C7_FailedJoinNoEffect ==
    [][JoinFailed(event')
          => /\ UNCHANGED <<myPlayerId, myPlayer, allPlayers, avatars,
                            viewportX, viewportY, canvas>>
             /\ redraws' = 0
             /\ UNCHANGED <<ws, reconnectTimer>>
             /\ ws'.readyState = "OPEN"
             /\ sent' = <<>>]_vars

\* A join is refused on a client that had joined before.
C7_Witness ==
    /\ JoinFailed(event)
    /\ myPlayerId # null /\ myPlayer # Absent /\ Keys(avatars) # {}
    /\ ws.readyState = "OPEN" /\ redraws = 0

\* C8: a player_left message naming an id that is not in the player mapping
\* changes nothing and draws exactly once.
C8_LeftOfAbsentId ==
    [][(Handled(event', "player_left")
            /\ event'.message.playerId \notin Keys(allPlayers))
          => /\ UNCHANGED <<myPlayerId, myPlayer, allPlayers, avatars,
                            viewportX, viewportY>>
             /\ redraws' = 1]_vars

\* A player_left for an id the server never announced, on a joined client.
C8_Witness ==
    /\ Handled(event, "player_left")
    /\ event.message.playerId = GhostId
    /\ Keys(allPlayers) # {} /\ myPlayerId # null
    /\ redraws = 1

KnownTags == {"join_game", "players_moved", "player_joined", "player_left"}

\* C9: a message whose action tag is not one of the four known tags, or is
\* missing, changes no state and draws nothing.
C9_UnknownTagIgnored ==
    [][(event'.type = "message" /\ ActionOf(event'.message) \notin KnownTags)
          => /\ UNCHANGED <<canvas, myPlayerId, myPlayer, allPlayers, avatars,
                            viewportX, viewportY, activeKeys,
                            currentDirection, pressed, ws, reconnectTimer>>
             /\ redraws' = 0
             /\ sent' = <<>>]_vars

\* A message with no action field reaches a joined client.
C9_Witness ==
    /\ event.type = "message"
    /\ "action" \notin DOMAIN event.message
    /\ myPlayerId # null /\ redraws = 0

\* The direction each arrow key stands for.
DirectionOfKey ==
    [k \in ArrowKeys |->
        CASE k = "ArrowUp" -> "up" [] k = "ArrowDown" -> "down"
          [] k = "ArrowLeft" -> "left" [] k = "ArrowRight" -> "right"]

\* The key of keys other than released that was added last.
MostRecentRemaining(keys, released) ==
    LET rest == {i \in 1..Len(keys) : keys[i] # released}
    IN  keys[CHOOSE i \in rest : \A j \in rest : j <= i]

\* C10: with the channel open, releasing a held key while another is still
\* held resolves the direction to that of the most recently added key still
\* held and emits one move intent for it; Up, Left, release Left gives up.
C10_ReleaseResolvesToMostRecent ==
    [][(/\ event'.type = "keyup"
        /\ event'.code \in Elements(activeKeys)
        /\ Elements(activeKeys) # {event'.code}
        /\ ws.readyState = "OPEN")
          => LET d == DirectionOfKey[MostRecentRemaining(activeKeys, event'.code)]
             IN  /\ currentDirection' = d
                 /\ sent' = <<[action |-> "move", direction |-> d]>>
                 /\ (activeKeys = <<"ArrowUp", "ArrowLeft">>
                        /\ event'.code = "ArrowLeft") => d = "up"]_vars

\* Left was released while Up, pressed before it, is still held.
C10_Witness ==
    /\ event = [type |-> "keyup", code |-> "ArrowLeft"]
    /\ activeKeys = <<"ArrowUp">>
    /\ currentDirection = "up"
    /\ sent = <<[action |-> "move", direction |-> "up"]>>
    /\ ws.readyState = "OPEN"

\* The last step handled a keydown / keyup of an arrow key.
ArrowKeyDown(e) == e.type = "keydown" /\ e.code \in ArrowKeys
ArrowKeyUp(e) == e.type = "keyup" /\ e.code \in ArrowKeys

MoveIntent(direction) == [action |-> "move", direction |-> direction]
StopIntent == [action |-> "stop"]
Intents(msgs) ==
    {msgs[i] : i \in {j \in 1..Len(msgs) : msgs[j].action \in {"move", "stop"}}}

\* C11: with the channel open, every step that takes the held set from
\* non-empty to empty sends exactly one stop intent and sets the direction
\* to null; pressing a second arrow key while another is held sends exactly
\* one move intent, for the new key's direction, and no stop; and no step
\* other than a keyup sends a stop, so none comes between the two moves.
C11_StopOncePerEmptying ==
    [][/\ (ws.readyState = "OPEN" /\ activeKeys # <<>> /\ activeKeys' = <<>>)
            => sent' = <<StopIntent>> /\ currentDirection' = null
       /\ (/\ ArrowKeyDown(event')
           /\ activeKeys # <<>>
           /\ event'.code \notin Elements(activeKeys)
           /\ ws.readyState = "OPEN")
            => sent' = <<MoveIntent(DirectionOfKey[event'.code])>>
       /\ StopIntent \in Intents(sent') => ArrowKeyUp(event')]_vars

\* Left was pressed while Up was held: one move intent for left, no stop.
C11_Witness ==
    /\ event = [type |-> "keydown", code |-> "ArrowLeft"]
    /\ activeKeys = <<"ArrowUp", "ArrowLeft">>
    /\ ws.readyState = "OPEN"
    /\ currentDirection = "left"
    /\ sent = <<MoveIntent("left")>>

\* C12: a keydown of an arrow key that is already in the held set and a
\* keyup of an arrow key that is not in the held set send no intent and
\* leave the resolved direction unchanged.
C12_IntentsOnTransitionsOnly ==
    [][(\/ ArrowKeyDown(event') /\ event'.code \in Elements(activeKeys)
        \/ ArrowKeyUp(event') /\ event'.code \notin Elements(activeKeys))
          => sent' = <<>> /\ currentDirection' = currentDirection]_vars

\* C13: whatever the channel state, the held set is the set of arrow keys
\* pressed and not yet released, and the resolved direction is null exactly
\* when the held set is empty.
C13_HeldSetTracksKeyboard ==
    /\ Elements(activeKeys) = pressed
    /\ (currentDirection = null) <=> (activeKeys = <<>>)

\* C14: nothing is sent on a channel that is not open: a key event on a
\* channel that is not open sends nothing, whatever is sent is sent on an
\* open channel, move and stop intents are sent only by the key event that
\* produces them, and the opening of the channel sends the join request and
\* nothing that was dropped before.
C14_DroppedWhenNotOpen ==
    [][/\ sent' # <<>> => ws'.readyState = "OPEN"
       /\ (event'.type \in {"keydown", "keyup"} /\ ws.readyState # "OPEN")
            => sent' = <<>>
       /\ Intents(sent') # {} => event'.type \in {"keydown", "keyup"}
       /\ event'.type = "open" => sent' = joinGame]_vars

\* The channel opens while a key is down whose keydown was dropped: only
\* the join request is sent.
C14_Witness ==
    /\ event.type = "open"
    /\ pressed # {} /\ activeKeys = <<>>
    /\ ws.readyState = "OPEN"
    /\ sent = joinGame

\* C17: every close schedules exactly one reconnect (one timeout pending,
\* never more), every open sends exactly one join_game request, and, the
\* browser running pending timeouts, every close is followed by a new
\* connection attempt, however many closes came before.
C17_ReconnectsForever ==
    /\ [][/\ event'.type = "close"
               => reconnectTimer = 0 /\ reconnectTimer' = 1
          /\ event'.type = "open" => sent' = joinGame]_vars
    /\ (event.type = "close")
          ~> (event.type = "reconnect" /\ ws.readyState = "CONNECTING")

\* The timeout of a close ran: a new socket is connecting and no timeout is
\* left pending.
C17_Witness ==
    /\ event.type = "reconnect"
    /\ ws.readyState = "CONNECTING"
    /\ reconnectTimer = 0

\* C20: after a successful join, whenever the player mapping has an entry
\* for local-player-id, the local player reference is that entry.
C20_ReferenceIsMappingEntry ==
    (myPlayerId # null /\ myPlayerId \in Keys(allPlayers))
        => myPlayer = allPlayers[myPlayerId]

\* The avatar draws the last call of draw() started.
FreshLoads(ls) == {l \in ls : ~l.superseded}

\* The avatar has an east sequence with a frame at the player's index.
HasEastFrame(player, avatarData) ==
    /\ "east" \in Keys(avatarData.frames)
    /\ frameIndex(player) + 1 \in 1..Len(avatarData.frames.east)

\* C15: when draw() runs for a local player facing west, the one image it
\* loads for that player is the east sequence's frame at the player's frame
\* index, drawn flipped, whether or not the avatar has a west sequence; when
\* the east sequence or that index is missing, it loads no image for the
\* player.
C15_WestUsesEastFrame ==
    [][(redraws' = 1 /\ myPlayer'.facing = "west") =>
          LET avatarData == avatars'[myPlayer'.avatar]
              fresh == FreshLoads(loads')
          IN IF HasEastFrame(myPlayer', avatarData)
             THEN fresh = {[id |-> myPlayer'.id,
                            username |-> myPlayer'.username,
                            x |-> myPlayer'.x - viewportX',
                            y |-> myPlayer'.y - viewportY',
                            src |-> avatarData.frames.east[frameIndex(myPlayer') + 1],
                            flipped |-> TRUE,
                            superseded |-> FALSE]}
             ELSE fresh = {}]_vars

\* A west-facing player at frame index 1 or more, whose avatar has a west
\* sequence too, was drawn from the east sequence.
C15_Witness ==
    /\ redraws = 1
    /\ myPlayer.facing = "west"
    /\ frameIndex(myPlayer) >= 1
    /\ "west" \in Keys(avatars[myPlayer.avatar].frames)
    /\ \E l \in FreshLoads(loads) :
          /\ l.src = avatars[myPlayer.avatar].frames.east[frameIndex(myPlayer) + 1]
          /\ l.src # avatars[myPlayer.avatar].frames.west[frameIndex(myPlayer) + 1]

\* The canvas operation puts pixels on the canvas: text, or an image whose
\* load is complete (an avatar image is painted by its own onload).
Paints(op) ==
    /\ op.op \in {"drawImage", "strokeText", "fillText"}
    /\ "complete" \in DOMAIN op => op.complete

\* C16: as long as the world background image has not finished loading,
\* no step paints anything on the canvas, neither the background nor an
\* avatar.
C16_NoDrawingBeforeWorldLoad ==
    ~worldImage.complete => \A i \in DOMAIN canvasOps : ~Paints(canvasOps[i])

\* The last step handled a message that changes the client's state.
StateMutating(e) ==
    /\ e.type = "message"
    /\ \/ ActionOf(e.message) \in {"players_moved", "player_joined", "player_left"}
       \/ ActionOf(e.message) = "join_game" /\ e.message.success

\* The players draw() goes through: the mapping's entries and the local one.
PlayersToDraw(plrs, me) ==
    {plrs[k] : k \in Keys(plrs)} \cup (IF me = Absent THEN {} ELSE {me})

\* C18: a successful join_game, a players_moved, a player_joined or a
\* player_left message makes exactly one call of draw(), however many ids a
\* players_moved batch names, and that call sees the state the message
\* leaves: it draws the background at the new viewport, every avatar draw
\* it starts is for a player of the new state at that player's new position
\* relative to the new viewport, and the local player of the new state is
\* among them when its avatar is known.
C18_OneRedrawAfterMutations ==
    [][StateMutating(event') =>
          /\ redraws' = 1
          /\ Len(canvasOps') = 2
          /\ canvasOps'[1].op = "clearRect"
          /\ canvasOps'[2].op = "drawImage"
          /\ canvasOps'[2].sx = viewportX'
          /\ canvasOps'[2].sy = viewportY'
          /\ \A l \in FreshLoads(loads') :
                \E p \in PlayersToDraw(allPlayers', myPlayer') :
                    /\ l.id = p.id
                    /\ l.x = p.x - viewportX'
                    /\ l.y = p.y - viewportY'
          /\ (myPlayer' # Absent /\ avatarOf(myPlayer', avatars') # Absent) =>
                \E l \in FreshLoads(loads') :
                    /\ l.id = myPlayer'.id
                    /\ l.x = myPlayer'.x - viewportX'
                    /\ l.y = myPlayer'.y - viewportY']_vars

\* A players_moved batch naming two ids, the local player among them, moved
\* the local player and the viewport and was followed by one redraw that
\* drew both players.
C18_Witness ==
    /\ event.type = "message"
    /\ ActionOf(event.message) = "players_moved"
    /\ Cardinality(Keys(event.message.players)) = 2
    /\ myPlayerId \in Keys(event.message.players)
    /\ myPlayer = event.message.players[myPlayerId]
    /\ redraws = 1
    /\ Cardinality(FreshLoads(loads)) = 2
    /\ \E l \in FreshLoads(loads) :
          l.id = myPlayerId /\ l.x = myPlayer.x - viewportX

\* The screen position (and the rest of) what an image load captured.
Capture(l) == [id |-> l.id, x |-> l.x, y |-> l.y, src |-> l.src]

\* The avatar image load that completed painted at the position it captured.
PaintedAsCaptured(ops, l) ==
    /\ Len(ops) = 3
    /\ ops[1].op = "drawImage" /\ ops[1].image = l.src
    /\ ops[1].x = l.x /\ ops[1].y = l.y
    /\ \A i \in 2..3 : ops[i].x = l.x /\ ops[i].y = l.y

\* C19: nothing cancels an image load in flight: whatever the step, and
\* however many times draw() runs again, every avatar image load in flight
\* stays in flight with the screen position it captured until its own load
\* completes, and then it paints the avatar at that captured position.
\* (That a stale position is painted this way is the state C19_Witness.)
C19_NoCancellation ==
    [][\A l \in loads :
          \/ \E k \in loads' : Capture(k) = Capture(l)
          \/ /\ event'.type = "avatarload"
             /\ event'.load = l
             /\ PaintedAsCaptured(canvasOps', l)]_vars

\* An image load started by an earlier draw() has just completed and
\* painted the local player's avatar where that draw() saw it, after a
\* message moved the player and a later draw() ran: the position painted is
\* not the player's position in the current state.
C19_Witness ==
    /\ event.type = "avatarload"
    /\ event.load.superseded
    /\ event.load.id = myPlayerId
    /\ myPlayer # Absent
    /\ PaintedAsCaptured(canvasOps, event.load)
    /\ <<event.load.x, event.load.y>> #
          <<myPlayer.x - viewportX, myPlayer.y - viewportY>>
    /\ \A p \in PlayersToDraw(allPlayers, myPlayer) :
          p.id = event.load.id =>
             <<event.load.x, event.load.y>> # <<p.x - viewportX, p.y - viewportY>>

\* C21: whenever the channel is open, a non-null resolved direction is the
\* direction of the last intent sent on the current connection, which is a
\* move, and with a null resolved direction the last intent sent on the
\* current connection, if there is one, is a stop.
C21_DirectionAgreesWithLastIntent ==
    ws.readyState = "OPEN" =>
        IF currentDirection # null
        THEN lastIntent = MoveIntent(currentDirection)
        ELSE lastIntent \in {Absent, StopIntent}

=============================================================================
